---- MODULE Spec2Model ----
(***************************************************************************)
(* Model of med_assistant.py, a Streamlit script.  Streamlit executes the  *)
(* whole script from top to bottom on the first page load and again after  *)
(* every widget event, so every action below is one complete script run:   *)
(* credential configuration, the widget reads, the file ingestion block    *)
(* and, when the button was clicked, the Generate Recommendation handler.  *)
(*                                                                         *)
(* Text is a sequence of tokens; the empty Python string is <<>> and       *)
(* "".join / f-string interpolation is concatenation.  None is <<>> in an  *)
(* optional slot and a present value v is <<v>>.                           *)
(***************************************************************************)
EXTENDS Integers, Sequences, FiniteSets, TLC

VARIABLES
    credential,       \* st.secrets holds GEMINI_API_KEY
    stopped,          \* the last run ended in st.stop() (no widget on the page)
    patient_name,     \* text
    patient_age,      \* <<>> (None) or <<n>>
    patient_gender,   \* text
    patient_weight,   \* <<>> (None) or <<tenths of a kilogram>>
    patient_history,  \* text
    uploaded_file,    \* <<>> (None) or <<[name, content]>>
    symptoms,         \* text
    file_content,     \* text the ingestion block of the last run produced
    ingest_msg,       \* message the ingestion block of the last run displayed
    parser_called,    \* content parser the ingestion block of the last run invoked
    clicked,          \* st.button returned True in the last run
    calls,            \* model.generate_content calls made by the last run
    prompt,           \* prompt sent by the last run (<<>> if none)
    response,         \* what the backend answered in the last run
    shown,            \* outcome elements the last run displayed
    error_cause,      \* the {e} of the st.error of the last run
    format_calls,     \* format_recommendation_text calls made by the last run
    recommendation,   \* formatted text rendered by the last run
    raw_text,         \* formatter harness: argument
    formatted_text,   \* formatter harness: result
    format_done       \* formatter harness: the function was applied

vars == <<credential, stopped, patient_name, patient_age, patient_gender,
          patient_weight, patient_history, uploaded_file, symptoms,
          file_content, ingest_msg, parser_called, clicked, calls, prompt,
          response, shown, error_cause, format_calls, recommendation,
          raw_text, formatted_text, format_done>>

formatVars == <<raw_text, formatted_text, format_done>>

appVars == <<credential, stopped, patient_name, patient_age, patient_gender,
             patient_weight, patient_history, uploaded_file, symptoms,
             file_content, ingest_msg, parser_called, clicked, calls, prompt,
             response, shown, error_cause, format_calls, recommendation>>

NL == "\n"

\* Longest raw text the formatter harness enumerates.
MaxLen == 4

-----------------------------------------------------------------------------
(* format_recommendation_text                                              *)

MedPhrase == <<"Medication ", "Recommendations">>
DosPhrase == <<"Dosage ", "Guidelines">>
ActPhrase == <<"Practical ", "Activities">>

H4Close == "</h4>"
MedOpen == "<h4 class=sub-section-header><i class=fas fa-pills section-icon></i> "
DosOpen == "<h4 class=sub-section-header><i class=fas fa-syringe section-icon></i> "
ActOpen == "<h4 class=sub-section-header><i class=fas fa-walking section-icon></i> "

MedHeading == <<MedOpen>> \o MedPhrase \o <<H4Close>>
DosHeading == <<DosOpen>> \o DosPhrase \o <<H4Close>>
ActHeading == <<ActOpen>> \o ActPhrase \o <<H4Close>>

\* str.replace(old, new, 1): only the first occurrence.
RECURSIVE ReplaceFirst(_, _, _)
ReplaceFirst(text, old, new) ==
    IF Len(text) < Len(old) THEN text
    ELSE IF SubSeq(text, 1, Len(old)) = old
         THEN new \o SubSeq(text, Len(old) + 1, Len(text))
         ELSE <<Head(text)>> \o ReplaceFirst(Tail(text), old, new)

\* str.replace(old, new): every non-overlapping occurrence, scanning from the left.
RECURSIVE Replace(_, _, _)
Replace(text, old, new) ==
    IF Len(text) < Len(old) THEN text
    ELSE IF SubSeq(text, 1, Len(old)) = old
         THEN new \o Replace(SubSeq(text, Len(old) + 1, Len(text)), old, new)
         ELSE <<Head(text)>> \o Replace(Tail(text), old, new)

format_recommendation_text(text) ==
    LET t1 == Replace(text, MedPhrase, MedHeading)
        t2 == Replace(t1, DosPhrase, DosHeading)
        t3 == Replace(t2, ActPhrase, ActHeading)
    IN  t3

-----------------------------------------------------------------------------
(* Gemini API configuration                                                *)

\* The configuration error is swallowed and the script goes on.
ConfigureIgnoringError(cred) == TRUE

\* genai.configure(api_key=st.secrets["GEMINI_API_KEY"]) returns normally iff
\* the secret exists; otherwise the lookup raises, st.error + st.stop() follow.
Configure(cred) == cred

-----------------------------------------------------------------------------
(* Widget domains                                                          *)

Names == {<<>>, <<"Jane Doe">>}
\* st.number_input(min_value=0, max_value=120, value=None)
Ages == {<<>>, <<0>>, <<34>>}
\* st.selectbox options
Genders == {<<>>, <<"Female">>}
\* st.number_input(min_value=0.0, value=None); a weight is held in tenths of a kg
Weights == {<<>>, <<0>>, <<625>>}
\* st.text_area: free text, possibly of several lines
Histories == {<<>>, <<"asthma", NL, "penicillin allergy">>}
SymptomTexts == {<<>>, <<"persistent cough for 5 days">>}

\* File names as token sequences, "." being the separator split('.') cuts at.
\* type=[...] of st.file_uploader is the filter of the upload widget; the
\* ingestion block keeps a branch of its own for a name outside that list
\* (the final else), so such names are among the inputs.
TabularNames == {<<"LABS", ".", "CSV">>, <<"scan", ".", "Xlsx">>}
OtherNames == {<<"report", ".", "docx">>,
               <<"old", ".", "csv", ".", "DOCX">>,
               <<"notes", ".", "txt">>,
               <<"README">>}

\* What the bytes are to the parser the extension selects: a table with rows,
\* a table with a header and no rows, or bytes the parser rejects.
FileContents == {"table", "empty_table", "malformed"}

Files ==
    {<<>>}
    \cup {<<[name |-> n, content |-> c]>> : n \in TabularNames, c \in FileContents}
    \cup {<<[name |-> n, content |-> "table"]>> : n \in OtherNames}

\* Answers of model.generate_content: the call raises (transport failure), it
\* returns a response whose .text accessor raises (no candidate / no text
\* part), or it returns a response whose .text is a string, possibly empty.
Causes == {"DeadlineExceeded", "503 Service Unavailable"}
SampleTexts == {<<>>,
                <<"Rest and fluids.">>,
                MedPhrase \o <<": ", "paracetamol", NL>> \o DosPhrase \o <<": ", "500 mg", NL>>
                    \o ActPhrase \o <<": ", "rest", NL>> \o DosPhrase \o <<" again">>}
NoResponse == [kind |-> "none", cause |-> "", text |-> <<>>]
Responses ==
    {[kind |-> "raise", cause |-> c, text |-> <<>>] : c \in Causes}
    \cup {[kind |-> "notext", cause |-> "ValueError", text |-> <<>>]}
    \cup {[kind |-> "text", cause |-> "", text |-> t] : t \in SampleTexts}

-----------------------------------------------------------------------------
(* File ingestion block                                                    *)

\* str.lower() on the tokens file names are made of.
LowerToken(t) ==
    CASE t = "CSV" -> "csv"
      [] t = "Xlsx" -> "xlsx"
      [] t = "DOCX" -> "docx"
      [] t = "LABS" -> "labs"
      [] t = "README" -> "readme"
      [] OTHER -> t

Lower(text) == [i \in 1..Len(text) |-> LowerToken(text[i])]

\* name.split('.')[-1]: what follows the last "." (the whole name without one).
RECURSIVE AfterLastDot(_)
AfterLastDot(name) ==
    IF \E i \in 1..Len(name) : name[i] = "."
    THEN AfterLastDot(SubSeq(name, (CHOOSE i \in 1..Len(name) : name[i] = ".") + 1, Len(name)))
    ELSE name

FileExtension(name) == Lower(AfterLastDot(name))

\* pd.read_csv / pd.read_excel raise on bytes they cannot parse.
ParseRaises(content) == content = "malformed"

\* df.to_string(): never empty, an empty frame renders as "Empty DataFrame ...".
df_to_string(content) ==
    IF content = "table"
    THEN <<"   A  B", NL, "0  1  2", NL, "1  3  4">>
    ELSE <<"Empty DataFrame", NL, "Columns: [A, B]", NL, "Index: []">>

DocxPlaceholder(name) ==
    <<"Uploaded DOCX file: ">> \o name \o <<". Content not parsed automatically in this demo.">>

NoIngestion == [content |-> <<>>, msg |-> "none", parser |-> "none"]

Parsed(parser, ok_msg, content) ==
    IF ParseRaises(content)
    THEN [content |-> <<>>, msg |-> "error_processing", parser |-> parser]
    ELSE [content |-> df_to_string(content), msg |-> ok_msg, parser |-> parser]

\* The docx branch without the file name in the placeholder.
IngestAnonymousDocx(file) ==
    IF file = <<>> THEN NoIngestion
    ELSE LET f == file[1]
             ext == FileExtension(f.name)
         IN  IF ext = <<"csv">> THEN Parsed("read_csv", "success_csv", f.content)
             ELSE IF ext = <<"xlsx">> THEN Parsed("read_excel", "success_xlsx", f.content)
             ELSE IF ext = <<"docx">>
                  THEN [content |-> <<"Uploaded DOCX file. Content not parsed automatically in this demo.">>,
                        msg |-> "warning_docx", parser |-> "none"]
             ELSE [content |-> <<>>, msg |-> "error_unsupported", parser |-> "none"]

Ingest(file) ==
    IF file = <<>> THEN NoIngestion
    ELSE LET f == file[1]
             ext == FileExtension(f.name)
         IN  IF ext = <<"csv">> THEN Parsed("read_csv", "success_csv", f.content)
             ELSE IF ext = <<"xlsx">> THEN Parsed("read_excel", "success_xlsx", f.content)
             ELSE IF ext = <<"docx">>
                  THEN [content |-> DocxPlaceholder(f.name), msg |-> "warning_docx", parser |-> "none"]
             ELSE [content |-> <<>>, msg |-> "error_unsupported", parser |-> "none"]

-----------------------------------------------------------------------------
(* Prompt construction                                                     *)

Preamble == "As a highly knowledgeable medical AI assistant, ... 'Medication Recommendations', 'Dosage Guidelines', and 'Practical Activities'."

NotProvided == "Not provided"
NoneProvided == "None provided"

NameLabel == "Patient Name: "
AgeLabel == "Patient Age: "
WeightLabel == "Patient Weight: "
GenderLabel == "Patient Gender: "
HistoryLabel == "Medical History: "
KgSuffix == " kg"

\* The conditional expression without its else value.
StrOrEmpty(v, marker) == v

\* {v if v else marker}: an empty string is falsy.
StrOr(v, marker) == IF v # <<>> THEN v ELSE <<marker>>

\* {patient_age if patient_age else marker}: 0 is falsy.
AgeValueTruthy(a) == IF a # <<>> /\ a[1] # 0 THEN <<ToString(a[1])>> ELSE <<NotProvided>>

\* {patient_age if patient_age is not None else marker}: str() of an int.
AgeValue(a) == IF a # <<>> THEN <<ToString(a[1])>> ELSE <<NotProvided>>

\* {patient_weight if patient_weight is not None else marker}: str() of a float.
WeightValue(w) ==
    IF w # <<>> THEN <<ToString(w[1] \div 10), ".", ToString(w[1] % 10)>> ELSE <<NotProvided>>

AssemblePrompt(name, age, weight, gender, history, fc, sym) ==
    <<Preamble, NL, NL>>
    \o <<NameLabel>> \o StrOr(name, NotProvided) \o <<NL>>
    \o <<AgeLabel>> \o AgeValue(age) \o <<NL>>
    \o <<WeightLabel>> \o WeightValue(weight) \o <<KgSuffix, NL>>
    \o <<GenderLabel>> \o StrOr(gender, NotProvided) \o <<NL>>
    \o <<HistoryLabel>> \o StrOr(history, NoneProvided) \o <<NL>>
    \o (IF fc # <<>> THEN <<"Uploaded Exam Results:", NL>> \o fc \o <<NL, NL>> ELSE <<>>)
    \o <<"Symptoms/Condition: ">> \o sym \o <<NL, NL, "Recommendations:">>

-----------------------------------------------------------------------------
(* Generate Recommendation handler                                         *)

\* `not symptoms and file_content`: the second `not` dropped.
RejectsWithFileText(sym, fc) == sym = <<>> /\ fc # <<>>

\* `not symptoms and not file_content`
Rejects(sym, fc) == sym = <<>> /\ fc = <<>>

Failed(n, cause) ==
    [calls |-> n, shown |-> {"error"}, cause |-> cause, format_calls |-> 0,
     recommendation |-> <<>>]

Rendered(text) ==
    [calls |-> 1, shown |-> {"recommendation"}, cause |-> "", format_calls |-> 1,
     recommendation |-> format_recommendation_text(text)]

\* The call is made a second time when the first one raises.
GenerateWithRetry(resp) ==
    IF resp.kind = "text" THEN Rendered(resp.text) ELSE Failed(2, resp.cause)

\* Formatting and rendering moved behind the try statement.
GenerateRenderingAfterTry(resp) ==
    IF resp.kind = "text" THEN Rendered(resp.text)
    ELSE [calls |-> 1, shown |-> {"error", "recommendation"}, cause |-> resp.cause,
          format_calls |-> 1, recommendation |-> format_recommendation_text(<<>>)]

\* try: generate_content, response.text, format, render; except: st.error({e}).
Generate(resp) ==
    IF resp.kind = "raise" THEN Failed(1, resp.cause)
    ELSE IF resp.kind = "notext" THEN Failed(1, resp.cause)
    ELSE Rendered(resp.text)

NotClicked ==
    [calls |-> 0, shown |-> {}, cause |-> "", format_calls |-> 0, recommendation |-> <<>>,
     prompt |-> <<>>, response |-> NoResponse]

Handler(name, age, weight, gender, history, fc, sym, click, resp) ==
    IF ~click THEN NotClicked
    ELSE IF Rejects(sym, fc)
         THEN [NotClicked EXCEPT !.shown = {"warning"}]
    ELSE LET g == Generate(resp)
         IN  [calls |-> g.calls, shown |-> g.shown, cause |-> g.cause,
              format_calls |-> g.format_calls, recommendation |-> g.recommendation,
              prompt |-> AssemblePrompt(name, age, weight, gender, history, fc, sym),
              response |-> resp]

-----------------------------------------------------------------------------
(* One script run                                                          *)

Run(name, age, weight, gender, history, file, sym, click, resp) ==
    /\ credential' = credential
    /\ IF ~Configure(credential)
       THEN /\ stopped' = TRUE
            /\ patient_name' = <<>> /\ patient_age' = <<>> /\ patient_gender' = <<>>
            /\ patient_weight' = <<>> /\ patient_history' = <<>>
            /\ uploaded_file' = <<>> /\ symptoms' = <<>>
            /\ file_content' = <<>> /\ ingest_msg' = "none" /\ parser_called' = "none"
            /\ clicked' = FALSE /\ calls' = 0 /\ prompt' = <<>>
            /\ response' = NoResponse /\ shown' = {"config_error"}
            /\ error_cause' = "GEMINI_API_KEY" /\ format_calls' = 0
            /\ recommendation' = <<>>
       ELSE LET ing == Ingest(file)
                h == Handler(name, age, weight, gender, history, ing.content, sym, click, resp)
            IN  /\ stopped' = FALSE
                /\ patient_name' = name /\ patient_age' = age /\ patient_gender' = gender
                /\ patient_weight' = weight /\ patient_history' = history
                /\ uploaded_file' = file /\ symptoms' = sym
                /\ file_content' = ing.content /\ ingest_msg' = ing.msg
                /\ parser_called' = ing.parser
                /\ clicked' = click /\ calls' = h.calls /\ prompt' = h.prompt
                /\ response' = h.response /\ shown' = h.shown
                /\ error_cause' = h.cause /\ format_calls' = h.format_calls
                /\ recommendation' = h.recommendation
    /\ UNCHANGED formatVars

\* The state after the first page load: every widget at its default value.
InitApp ==
    /\ credential \in BOOLEAN
    /\ stopped = ~Configure(credential)
    /\ patient_name = <<>> /\ patient_age = <<>> /\ patient_gender = <<>>
    /\ patient_weight = <<>> /\ patient_history = <<>>
    /\ uploaded_file = <<>> /\ symptoms = <<>>
    /\ file_content = <<>> /\ ingest_msg = "none" /\ parser_called = "none"
    /\ clicked = FALSE /\ calls = 0 /\ prompt = <<>> /\ response = NoResponse
    /\ shown = IF Configure(credential) THEN {} ELSE {"config_error"}
    /\ error_cause = IF Configure(credential) THEN "" ELSE "GEMINI_API_KEY"
    /\ format_calls = 0 /\ recommendation = <<>>

Init ==
    /\ InitApp
    /\ raw_text = <<>> /\ formatted_text = <<>> /\ format_done = FALSE

Rerun(name, age, weight, gender, history, file, sym) ==
    Run(name, age, weight, gender, history, file, sym, FALSE, NoResponse)

Reload ==
    Rerun(patient_name, patient_age, patient_weight, patient_gender, patient_history,
          uploaded_file, symptoms)

SetName ==
    /\ ~stopped
    /\ \E v \in Names \ {patient_name} :
          Rerun(v, patient_age, patient_weight, patient_gender, patient_history,
                uploaded_file, symptoms)

SetAge ==
    /\ ~stopped
    /\ \E v \in Ages \ {patient_age} :
          Rerun(patient_name, v, patient_weight, patient_gender, patient_history,
                uploaded_file, symptoms)

SetWeight ==
    /\ ~stopped
    /\ \E v \in Weights \ {patient_weight} :
          Rerun(patient_name, patient_age, v, patient_gender, patient_history,
                uploaded_file, symptoms)

SetGender ==
    /\ ~stopped
    /\ \E v \in Genders \ {patient_gender} :
          Rerun(patient_name, patient_age, patient_weight, v, patient_history,
                uploaded_file, symptoms)

SetHistory ==
    /\ ~stopped
    /\ \E v \in Histories \ {patient_history} :
          Rerun(patient_name, patient_age, patient_weight, patient_gender, v,
                uploaded_file, symptoms)

SetFile ==
    /\ ~stopped
    /\ \E v \in Files \ {uploaded_file} :
          Rerun(patient_name, patient_age, patient_weight, patient_gender, patient_history,
                v, symptoms)

SetSymptoms ==
    /\ ~stopped
    /\ \E v \in SymptomTexts \ {symptoms} :
          Rerun(patient_name, patient_age, patient_weight, patient_gender, patient_history,
                uploaded_file, v)

Submit ==
    /\ ~stopped
    /\ \E resp \in Responses :
          Run(patient_name, patient_age, patient_weight, patient_gender, patient_history,
              uploaded_file, symptoms, TRUE, resp)

Next ==
    \/ Reload
    \/ SetName
    \/ SetAge
    \/ SetWeight
    \/ SetGender
    \/ SetHistory
    \/ SetFile
    \/ SetSymptoms
    \/ Submit

Spec == Init /\ [][Next]_vars

-----------------------------------------------------------------------------
(* Formatter harness: format_recommendation_text applied to every text of  *)
(* at most MaxLen tokens over an alphabet holding the words of the three   *)
(* phrases and one other token.                                            *)

Alphabet == {"Medication ", "Recommendations", "Dosage ", "Guidelines",
             "Practical ", "Activities", "x"}

Texts == UNION {[1..n -> Alphabet] : n \in 0..MaxLen}

InitFormat ==
    /\ InitApp
    /\ raw_text \in Texts /\ formatted_text = <<>> /\ format_done = FALSE

FormatText ==
    /\ ~format_done
    /\ formatted_text' = format_recommendation_text(raw_text)
    /\ format_done' = TRUE
    /\ UNCHANGED raw_text
    /\ UNCHANGED appVars

NextFormat == FormatText

SpecFormat == InitFormat /\ [][NextFormat]_vars

-----------------------------------------------------------------------------
(* Properties                                                              *)

Range(f) == {f[i] : i \in DOMAIN f}

\* text.split("\n")
RECURSIVE SplitLines(_)
SplitLines(text) ==
    IF \E i \in 1..Len(text) : text[i] = NL
    THEN LET i == CHOOSE k \in 1..Len(text) :
                     text[k] = NL /\ \A j \in 1..(k - 1) : text[j] # NL
         IN  <<SubSeq(text, 1, i - 1)>> \o SplitLines(SubSeq(text, i + 1, Len(text)))
    ELSE <<text>>

Labels == <<NameLabel, AgeLabel, WeightLabel, GenderLabel, HistoryLabel>>
Markers == <<NotProvided, NotProvided, NotProvided, NotProvided, NoneProvided>>
FieldValues == <<patient_name, patient_age, patient_weight, patient_gender, patient_history>>

IsLabelled(line) == line # <<>> /\ line[1] \in Range(Labels)

\* The lines of the prompt that begin with one of the five labels, in order.
LabelledLines(text) == SelectSeq(SplitLines(text), IsLabelled)

\* What stands on a labelled line between the label and, on the weight line, the unit.
ValueOn(line) ==
    IF line[1] = WeightLabel THEN SubSeq(line, 2, Len(line) - 1) ELSE Tail(line)

\* The value rendered for the i-th field in the prompt that was sent.
RenderedValue(i) == ValueOn(LabelledLines(prompt)[i])

PromptSent == clicked /\ calls >= 1

\* Positions at which phrase occurs in text.
Occurrences(text, phrase) ==
    {i \in 1..Len(text) : i + Len(phrase) - 1 <= Len(text)
                          /\ SubSeq(text, i, i + Len(phrase) - 1) = phrase}

Contains(text, phrase) == Occurrences(text, phrase) # {}

UploadedName == uploaded_file[1].name
UploadedExtension == FileExtension(UploadedName)
NotTabular == uploaded_file # <<>> /\ UploadedExtension \notin {<<"csv">>, <<"xlsx">>}

\* C1: a submit with empty symptom text and empty ingested file text shows the
\* validation warning and makes no backend call, whatever the patient fields hold.
C1_EmptyRequestRejected ==
    (clicked /\ symptoms = <<>> /\ file_content = <<>>)
        => (calls = 0 /\ shown = {"warning"} /\ prompt = <<>>)

C1_Witness ==
    /\ clicked /\ symptoms = <<>> /\ file_content = <<>>
    /\ uploaded_file # <<>> /\ patient_name # <<>> /\ patient_age # <<>>
    /\ "warning" \in shown

\* C2: without a credential every script run reports the configuration error,
\* stops, and makes no backend call.
C2_NoCredentialNoCall ==
    ~credential => (stopped /\ shown = {"config_error"} /\ calls = 0 /\ ~clicked)

C2_Witness == ~credential /\ "config_error" \in shown /\ stopped

\* C3: a submit makes at most one backend request; when the request fails the
\* error carrying its cause is shown and no second request is made.
C3_SingleRequestNoRetry ==
    clicked =>
        /\ calls <= 1
        /\ response.kind \in {"raise", "notext"}
              => (calls = 1 /\ shown = {"error"} /\ error_cause = response.cause)

C3_Witness ==
    clicked /\ response.kind = "raise" /\ "error" \in shown /\ error_cause = "DeadlineExceeded"

\* C4 (as stated): after a csv/xlsx parse failure, a submit with non-empty
\* symptoms does not send the prompt it would send had no file been uploaded.
C4_FailureNotSentAsBlank ==
    (clicked /\ ingest_msg = "error_processing" /\ symptoms # <<>>)
        => /\ file_content # Ingest(<<>>).content
           /\ ~(calls >= 1
                /\ prompt = AssemblePrompt(patient_name, patient_age, patient_weight,
                                           patient_gender, patient_history, <<>>, symptoms))

C7_EmptyStringKept ==
    PromptSent =>
        /\ \A i \in {2, 3} : (RenderedValue(i) = <<Markers[i]>>) <=> (FieldValues[i] = <<>>)
        /\ \A i \in {1, 4, 5} : FieldValues[i] = <<>> => RenderedValue(i) # <<Markers[i]>>

\* C7 (amended): age and weight render the marker iff they are None, so 0 and
\* 0.0 are rendered as numbers; name, gender and history render the marker iff
\* they are the empty string.
C7_MarkerIffNoneOrEmpty ==
    PromptSent =>
        /\ \A i \in 1..5 : (RenderedValue(i) = <<Markers[i]>>) <=> (FieldValues[i] = <<>>)
        /\ patient_age = <<0>> => RenderedValue(2) = <<"0">>
        /\ patient_weight = <<0>> => RenderedValue(3) = <<"0", ".", "0">>

C7_Witness ==
    /\ PromptSent
    /\ patient_age = <<0>> /\ patient_weight = <<0>> /\ patient_name = <<>>
    /\ RenderedValue(2) = <<"0">>
    /\ RenderedValue(1) = <<NotProvided>>

\* C8 (as stated): a backend answer without text, or with empty text, ends the
\* submit in a failure and never in a rendered recommendation.
C8_EmptyAnswerIsFailure ==
    (clicked /\ calls >= 1
        /\ (response.kind = "notext" \/ (response.kind = "text" /\ response.text = <<>>)))
        => (shown = {"error"} /\ format_calls = 0)

\* C9: the formatter turns every occurrence of each of the three phrases into
\* its heading element (n occurrences, n headings), changes nothing else, and
\* returns a text without any of the phrases as it is.
HeadingOf(open) ==
    CASE open = MedOpen -> MedHeading
      [] open = DosOpen -> DosHeading
      [] open = ActOpen -> ActHeading

PhraseOf(open) ==
    CASE open = MedOpen -> MedPhrase
      [] open = DosOpen -> DosPhrase
      [] open = ActOpen -> ActPhrase

Opens == {MedOpen, DosOpen, ActOpen}

IsMarkup(t) == t \in Opens \cup {H4Close}
IsContent(t) == ~IsMarkup(t)

C9_EveryOccurrenceReplaced ==
    format_done =>
        /\ SelectSeq(formatted_text, IsContent) = raw_text
        /\ \A o \in Opens :
              /\ Cardinality(Occurrences(formatted_text, <<o>>))
                    = Cardinality(Occurrences(raw_text, PhraseOf(o)))
              /\ Occurrences(formatted_text, <<o>>) = Occurrences(formatted_text, HeadingOf(o))
              /\ \A i \in Occurrences(formatted_text, PhraseOf(o)) :
                    i > 1 /\ formatted_text[i - 1] = o
        /\ Cardinality(Occurrences(formatted_text, <<H4Close>>))
              = Cardinality({i \in 1..Len(formatted_text) : formatted_text[i] \in Opens})
        /\ (\A o \in Opens : ~Contains(raw_text, PhraseOf(o))) => formatted_text = raw_text

C9_Witness ==
    /\ format_done
    /\ Cardinality(Occurrences(raw_text, DosPhrase)) = 2
    /\ Cardinality(Occurrences(formatted_text, DosHeading)) = 2

\* C10: a submit ends in exactly one of warning (no backend call), rendered
\* recommendation, or error; the formatter runs only in a submit whose backend
\* call returned text, and then once.
C10_OneOutcome ==
    /\ clicked =>
          /\ Cardinality(shown) = 1
          /\ shown \subseteq {"warning", "recommendation", "error"}
          /\ "warning" \in shown => calls = 0
          /\ "recommendation" \in shown <=> format_calls = 1
    /\ format_calls > 0 =>
          (clicked /\ calls = 1 /\ response.kind = "text" /\ format_calls = 1
           /\ recommendation = format_recommendation_text(response.text))

C10_Witness ==
    /\ clicked /\ shown = {"recommendation"} /\ format_calls = 1
    /\ Contains(recommendation, DosHeading)

====
